---- MODULE Spec2Model ----
(***************************************************************************)
(* Model of the GitHub repository notification system: the StateManager    *)
(* (state_manager.py), the fetch isolation of GitHubClient                 *)
(* (github_client.py), the EmailService (email_service.py) and the poll    *)
(* cycle of NotificationApp (main.py).                                     *)
(*                                                                         *)
(* The list fetched for a user (github_client.py 90-96) is drawn when the  *)
(* loop of main.py 74 reaches that user.  The fetches read and write no    *)
(* program state, so drawing them all before the loop, as main.py 71 does, *)
(* and drawing each at its user's turn give the same runs.                 *)
(***************************************************************************)
EXTENDS Integers, Sequences, FiniteSets, TLC

\* ------------------------------------------------------------------ bounds
\* the longest list a request returns or a caller passes
MaxLen == 2
\* the latest reading of the clock
MaxClock == 2
\* the number of writes of the state file that fail
MaxWriteFaults == 2
\* the number of times the process is stopped and started again
MaxRestarts == 1
\* the number of arguments on the command line, after the name of the script
MaxArgs == 2

\* ------------------------------------------------------------ the inputs
\* config["github"]["users_to_monitor"], in configuration order
Users == <<"alice", "bob">>
UserSet == {Users[n] : n \in 1..Len(Users)}
\* repository ids as GitHub gives them (integers), of one and of two digits
Ids == {9, 10}
\* the contents a record can have (name, description, updated_at, ...)
Vers == {"v1", "v2"}
\* a processed repository record of get_user_repositories
Repo(u, i, v) == [id |-> i, ver |-> v, owner |-> u]
RECURSIVE SeqsUpTo(_, _)
SeqsUpTo(S, n) ==
  IF n = 0 THEN {<<>>}
  ELSE LET shorter == SeqsUpTo(S, n - 1)
       IN shorter \cup {Append(s, x) : s \in {t \in shorter : Len(t) = n - 1}, x \in S}
\* the lists of records of a user with contents among vs, duplicates included:
\* what a request of the API can return, and what a caller can pass
RepoLists(u, vs) == SeqsUpTo({Repo(u, i, v) : i \in Ids, v \in vs}, MaxLen)
\* how one request of get_user_repositories can end
FetchKinds == {"ok", "not_found", "rate_limit", "transport_error"}

\* the email section of the configuration; "" is an empty setting
CompleteEmail ==
  [enabled |-> TRUE, smtp_server |-> "smtp.gmail.com", smtp_port |-> 587,
   sender_email |-> "test@example.com", sender_password |-> "password123",
   recipient_email |-> "recipient@example.com"]
DefaultEmail ==
  [enabled |-> TRUE, smtp_server |-> "smtp.gmail.com", smtp_port |-> 587,
   sender_email |-> "", sender_password |-> "", recipient_email |-> ""]
EmailConfigs == {CompleteEmail, DefaultEmail}

\* ------------------------------------------------------------- variables
VARIABLES
  state,        \* StateManager.state, the in-memory GlobalState
  file,         \* the content of the state file
  lastSave,     \* how the most recent _save_state ended: "none", "ok", "failed"
  faults,       \* failed writes of the state file so far
  clock,        \* the latest reading of datetime.now()
  email,        \* the email configuration of the run
  contents,     \* the contents the records of the run have
  pc,           \* where run_once is: "idle", "process", "touch", "send"; "fatal"
                \* once an exception has escaped it; "off" before the
                \* NotificationApp is constructed
  idx,          \* position in Users of the next user of the loop
  new_repos_by_user, \* check_for_new_repositories' dictionary (user -> new list)
  calls,        \* the records notify was invoked for in this cycle, in order
  tally,        \* send_batch_notification's results: [success, failure]
  results,      \* the summary the last run_once returned, or NoResults
  call,         \* the last StateManager read or merge: its arguments and result
  failed,       \* users whose fetch failed in this cycle
  onDisk,       \* users whose merge of this cycle is in the file
  everSeen,     \* <<user, id>> pairs that occurred in a fetch result of a cycle
  newCount,     \* <<user, id>> -> number of cycles that reported it new
  everNotified, \* <<user, id>> pairs notify was invoked for in the whole run
  touches,      \* update_last_check_time calls of this cycle
  restarts,     \* process restarts so far
  sched         \* where run_scheduled is: "direct" when run_once is called
                \* directly, else "begin", "cycle", "returned", "sleeping",
                \* "woke", "stopped", "raised"

vars == <<state, file, lastSave, faults, clock, email, contents, pc, idx, new_repos_by_user,
          calls, tally, results, call, failed, onDisk, everSeen, newCount,
          everNotified, touches, restarts, sched>>

\* --------------------------------------------------------- StateManager
\* str(repo["id"]): the decimal digits of a non-negative integer
RECURSIVE Str(_)
Str(n) == IF n < 10 THEN <<n>> ELSE Append(Str(n \div 10), n % 10)
\* int(repo_id): the integer a digit string denotes
RECURSIVE IntOf(_)
IntOf(s) == IF Len(s) = 0 THEN 0 ELSE 10 * IntOf(SubSeq(s, 1, Len(s) - 1)) + s[Len(s)]

EmptyDict == [k \in {} |-> 0]
DefaultState == [last_check |-> 0, repositories |-> EmptyDict]

\* an assignment that drops the other keys of the dictionary
DictOnly(d, key, value) == [k \in {key} |-> value]

\* dict[key] = value
DictSet(d, key, value) ==
  [k \in DOMAIN d \cup {key} |-> IF k = key THEN value ELSE d[k]]

\* self.state["repositories"] does not raise
Usable(st) == "repositories" \in DOMAIN st

\* get_known_repositories answering from the state file instead of self.state
KnownInFile(st, username) ==
  IF file.kind # "json" \/ username \notin DOMAIN file.doc.repositories
  THEN {}
  ELSE {IntOf(repo_id) : repo_id \in DOMAIN file.doc.repositories[username]}

GetKnownRepositories(st, username) ==
  IF username \notin DOMAIN st.repositories
  THEN {}
  ELSE {IntOf(repo_id) : repo_id \in DOMAIN st.repositories[username]}

\* the loop of lines 98-100 left after its first turn
StoreFirst(d, repositories) ==
  IF repositories = <<>> THEN d
  ELSE DictSet(d, Str(Head(repositories).id), Head(repositories))

\* the loop of lines 98-100
RECURSIVE StoreAll(_, _)
StoreAll(d, repositories) ==
  IF repositories = <<>> THEN d
  ELSE StoreAll(DictSet(d, Str(Head(repositories).id), Head(repositories)),
                Tail(repositories))

\* update_repositories rebuilding the user's entry from the given list alone
UpdateRepositoriesFresh(st, username, repositories) ==
  [st EXCEPT !.repositories =
     DictSet(st.repositories, username, StoreAll(EmptyDict, repositories))]

\* update_repositories that stamps last_check with every account it merges
UpdateAndStamp(st, username, repositories) ==
  LET repos == IF username \notin DOMAIN st.repositories
               THEN DictSet(st.repositories, username, EmptyDict)
               ELSE st.repositories
  IN [st EXCEPT !.repositories =
                  DictSet(repos, username, StoreAll(repos[username], repositories)),
                !.last_check = clock]

\* update_repositories keeping one dictionary of records for all accounts
UpdateRepositoriesShared(st, username, repositories) ==
  [st EXCEPT !.repositories =
     [u \in DOMAIN st.repositories \cup {username} |->
        StoreAll(IF u \in DOMAIN st.repositories THEN st.repositories[u] ELSE EmptyDict,
                 repositories)]]

\* update_repositories, the in-memory part (lines 95-100)
UpdateRepositories(st, username, repositories) ==
  LET repos == IF username \notin DOMAIN st.repositories
               THEN DictSet(st.repositories, username, EmptyDict)
               ELSE st.repositories
  IN [st EXCEPT !.repositories =
        DictSet(repos, username, StoreAll(repos[username], repositories))]

\* the loop of lines 118-120 inserting at the front instead of appending
RECURSIVE KeepUnknownReversed(_, _)
KeepUnknownReversed(current_repos, known_repo_ids) ==
  IF current_repos = <<>> THEN <<>>
  ELSE LET rest == KeepUnknownReversed(Tail(current_repos), known_repo_ids)
       IN IF Head(current_repos).id \notin known_repo_ids
          THEN rest \o <<Head(current_repos)>>
          ELSE rest

\* the loop of lines 118-120 passing each unknown id once
RECURSIVE KeepUnknownOnce(_, _)
KeepUnknownOnce(current_repos, known_repo_ids) ==
  IF current_repos = <<>> THEN <<>>
  ELSE IF Head(current_repos).id \notin known_repo_ids
       THEN <<Head(current_repos)>> \o
            KeepUnknownOnce(Tail(current_repos),
                            known_repo_ids \cup {Head(current_repos).id})
       ELSE KeepUnknownOnce(Tail(current_repos), known_repo_ids)

\* the loop of lines 118-120
RECURSIVE KeepUnknown(_, _)
KeepUnknown(current_repos, known_repo_ids) ==
  IF current_repos = <<>> THEN <<>>
  ELSE LET rest == KeepUnknown(Tail(current_repos), known_repo_ids)
       IN IF Head(current_repos).id \notin known_repo_ids
          THEN <<Head(current_repos)>> \o rest
          ELSE rest

\* detect_new_repositories without the membership test of line 119
DetectEverything(st, username, current_repos) == current_repos

DetectNewRepositories(st, username, current_repos) ==
  KeepUnknown(current_repos, GetKnownRepositories(st, username))

\* update_last_check_time storing a reading one tick behind the clock
SetLastCheckBehind(st, now) == [st EXCEPT !.last_check = now - 1]

\* update_last_check_time, the in-memory part (line 126)
SetLastCheck(st, now) == [st EXCEPT !.last_check = now]

\* _save_state: the whole state replaces the file, or the write fails with an
\* IOError that is logged and absorbed: when open fails the file keeps what it
\* held, and when the write fails after open(path, 'w') has truncated the file
\* it is left with an incomplete text
SaveState(st) ==
  \/ /\ file' = [kind |-> "json", doc |-> st]
     /\ lastSave' = "ok"
     /\ faults' = faults
  \/ /\ faults < MaxWriteFaults
     /\ file' = file
     /\ lastSave' = "failed"
     /\ faults' = faults + 1
  \/ /\ faults < MaxWriteFaults
     /\ file' = [kind |-> "garbage", doc |-> DefaultState]
     /\ lastSave' = "failed"
     /\ faults' = faults + 1

\* the file is not written
NoSave == UNCHANGED <<file, lastSave, faults>>

\* update_repositories without its line 102
UpdateUnsaved(st) == NoSave

\* update_last_check_time without its line 127
TouchUnsaved(st) == NoSave

\* update_repositories line 102
SaveAfterUpdate(st) == SaveState(st)

\* update_last_check_time line 127
SaveAfterTouch(st) == SaveState(st)

\* ------------------------------------------------------------ GitHubClient
\* get_user_repositories (lines 45-76): a 404 and a 403 are answered with [],
\* any other failure is raised again as an Exception
Raises(kind) == kind = "transport_error"

\* get_repositories_for_users without the try of lines 92-96
CaughtNothing(kind) == FALSE

\* get_repositories_for_users line 94: every Exception of a request is caught
Caught(kind) == TRUE

\* the list get_repositories_for_users stores for the user (lines 92-96)
FetchedList(kind, repos) == IF kind = "ok" THEN repos ELSE <<>>

\* ------------------------------------------------------------ EmailService
\* the values the attributes of the service hold, with their Python types
PyBool(b) == [type |-> "bool", b |-> b]
PyStr(s) == [type |-> "str", s |-> s]
PyInt(n) == [type |-> "int", n |-> n]

\* the truth value of a Python value: False, 0 and "" are false
Truthy(v) ==
  CASE v.type = "bool" -> v.b
    [] v.type = "str" -> v.s # ""
    [] v.type = "int" -> v.n # 0

\* a and b and ...: the first operand that is false, or else the last one
RECURSIVE AndChain(_)
AndChain(vs) ==
  IF Len(vs) = 1 \/ ~Truthy(Head(vs)) THEN Head(vs) ELSE AndChain(Tail(vs))

\* the chain of is_properly_configured without its last operand
ChainWithoutRecipient(cfg) ==
  AndChain(<<PyBool(cfg.enabled), PyStr(cfg.smtp_server), PyInt(cfg.smtp_port),
             PyStr(cfg.sender_email), PyStr(cfg.sender_password)>>)

\* the value is_properly_configured returns (lines 39-46)
IsProperlyConfiguredValue(cfg) ==
  AndChain(<<PyBool(cfg.enabled), PyStr(cfg.smtp_server), PyInt(cfg.smtp_port),
             PyStr(cfg.sender_email), PyStr(cfg.sender_password),
             PyStr(cfg.recipient_email)>>)

\* is_properly_configured() where a caller tests it (email_service.py 58,
\* main.py 106): the truth value of the chain
IsProperlyConfigured(cfg) ==
  /\ cfg.enabled
  /\ cfg.smtp_server # ""
  /\ cfg.smtp_port # 0
  /\ cfg.sender_email # ""
  /\ cfg.sender_password # ""
  /\ cfg.recipient_email # ""

\* send_new_repo_notification reaches the try of line 62, where the message
\* is built and handed to smtplib
SendAttempted(cfg) == IsProperlyConfigured(cfg)

\* ---------------------------------------------------------- NotificationApp
NoResults == [checked_users |-> 0, new_repositories |-> 0, notifications_sent |-> 0,
              notifications_failed |-> 0, check_time |-> 0, cycle |-> FALSE]
NoCall == [op |-> "none"]
NoTally == [success |-> 0, failure |-> 0]
Pairs == UserSet \X Ids

\* new_repos_by_user.values(), concatenated in the dictionary's order, which is
\* the order the users were inserted in: the configuration order
RECURSIVE Flatten(_, _)
Flatten(by_user, n) ==
  IF n = 0 THEN <<>>
  ELSE Flatten(by_user, n - 1) \o
       (IF Users[n] \in DOMAIN by_user THEN by_user[Users[n]] ELSE <<>>)
NewRecords == Flatten(new_repos_by_user, Len(Users))
\* total_new_repos of run_once (line 126)
TotalNew == Len(NewRecords)

InitBase ==
  /\ state = DefaultState
  /\ file = [kind |-> "json", doc |-> DefaultState]
  /\ lastSave = "ok"
  /\ clock = 1
  /\ pc = "idle"
  /\ idx = 0
  /\ new_repos_by_user = EmptyDict
  /\ calls = <<>>
  /\ tally = NoTally
  /\ results = NoResults
  /\ call = NoCall
  /\ failed = {}
  /\ onDisk = {}
  /\ everSeen = {}
  /\ newCount = [p \in Pairs |-> 0]
  /\ everNotified = {}
  /\ touches = 0
  /\ restarts = 0
  /\ sched = "direct"

\* the first start: no state file, _create_default_state writes the default;
\* the remote records keep one content during the run
Init ==
  /\ InitBase
  /\ faults = 0
  /\ email \in EmailConfigs
  /\ contents = {"v1"}

\* run_scheduled line 154: run_once has returned to the loop when the cycle
\* the loop started reaches its end
Returned ==
  sched' = IF sched = "cycle" /\ pc' = "idle" THEN "returned" ELSE sched

\* run_once is entered, by a direct call or by the loop of run_scheduled at
\* its first turn or after a sleep: check_for_new_repositories starts with an
\* empty dictionary
StartCycle ==
  /\ pc = "idle"
  /\ sched \in {"direct", "begin", "woke"}
  /\ sched' = IF sched = "direct" THEN "direct" ELSE "cycle"
  /\ pc' = "process"
  /\ idx' = 1
  /\ new_repos_by_user' = EmptyDict
  /\ calls' = <<>>
  /\ tally' = NoTally
  /\ call' = NoCall
  /\ failed' = {}
  /\ onDisk' = {}
  /\ touches' = 0
  /\ results' = NoResults
  /\ UNCHANGED <<state, file, lastSave, faults, clock, email, contents, everSeen,
                 newCount, everNotified, restarts>>

Min(a, b) == IF a < b THEN a ELSE b

\* the users the loop of main.py 74-85 has dealt with in this cycle
Processed ==
  IF pc = "process" THEN {Users[n] : n \in 1..(idx - 1)}
  ELSE IF pc \in {"touch", "send"} THEN UserSet
  ELSE {}

\* one turn of the loop of main.py 74-85 for the user at idx, with its fetch;
\* on a state without "repositories" detect_new_repositories raises KeyError
ProcessUser ==
  /\ pc = "process"
  /\ idx <= Len(Users)
  /\ LET username == Users[idx] IN
     \E kind \in FetchKinds, answer \in RepoLists(username, contents) :
       LET repos == FetchedList(kind, answer)
           new_repos == DetectNewRepositories(state, username, repos)
           seen == {<<username, repos[n].id>> : n \in 1..Len(repos)}
           news == {<<username, new_repos[n].id>> : n \in 1..Len(new_repos)}
       IN /\ kind = "ok" \/ answer = <<>>
          /\ IF (Raises(kind) /\ ~Caught(kind)) \/ ~Usable(state)
             THEN /\ pc' = "fatal"
                  /\ UNCHANGED <<state, file, lastSave, faults, idx, new_repos_by_user,
                                 call, failed, onDisk, everSeen, newCount>>
             ELSE /\ new_repos_by_user' =
                       IF new_repos # <<>>
                       THEN DictSet(new_repos_by_user, username, new_repos)
                       ELSE new_repos_by_user
                  /\ state' = UpdateRepositories(state, username, repos)
                  /\ SaveAfterUpdate(state')
                  /\ call' = [op |-> "process", user |-> username, ok |-> kind = "ok",
                              repos |-> repos,
                              known |-> GetKnownRepositories(state, username),
                              result |-> new_repos]
                  /\ failed' = IF kind = "ok" THEN failed ELSE failed \cup {username}
                  /\ onDisk' = IF lastSave' = "ok" THEN Processed \cup {username}
                               ELSE IF file' = file THEN onDisk ELSE {}
                  /\ everSeen' = everSeen \cup seen
                  /\ newCount' = [p \in Pairs |->
                                    IF p \in news THEN Min(newCount[p] + 1, 2)
                                    ELSE newCount[p]]
                  /\ idx' = idx + 1
                  /\ pc' = IF idx = Len(Users) THEN "touch" ELSE "process"
  /\ UNCHANGED <<clock, email, contents, calls, tally, results, everNotified, touches,
                 restarts>>
  /\ Returned

\* main.py 88: update_last_check_time, with the clock read by datetime.now()
TouchLastCheck ==
  /\ pc = "touch"
  /\ \E now \in clock..MaxClock :
       /\ clock' = now
       /\ state' = SetLastCheck(state, now)
       /\ SaveAfterTouch(state')
  /\ pc' = "send"
  /\ call' = NoCall
  /\ onDisk' = IF lastSave' = "ok" THEN UserSet
                ELSE IF file' = file THEN onDisk ELSE {}
  /\ touches' = touches + 1
  /\ UNCHANGED <<email, contents, idx, new_repos_by_user, calls, tally, results, failed,
                 everSeen, newCount, everNotified, restarts>>
  /\ Returned

\* a summary whose new_repositories counts the accounts that have new records
SummaryCountingAccounts(t) ==
  [checked_users |-> Len(Users),
   new_repositories |-> Cardinality({u \in DOMAIN new_repos_by_user :
                                       new_repos_by_user[u] # <<>>}),
   notifications_sent |-> t.success, notifications_failed |-> t.failure,
   check_time |-> state.last_check, cycle |-> TRUE]

\* the summary of run_once (lines 134-140)
Summary(t) ==
  [checked_users |-> Len(Users), new_repositories |-> TotalNew,
   notifications_sent |-> t.success, notifications_failed |-> t.failure,
   check_time |-> state.last_check, cycle |-> TRUE]

\* run_once 128-131 with nothing new: send_notifications is not called
NothingNew ==
  /\ pc = "send"
  /\ TotalNew = 0
  /\ results' = Summary(NoTally)
  /\ pc' = "idle"
  /\ UNCHANGED <<state, file, lastSave, faults, clock, email, contents, idx, new_repos_by_user,
                 calls, tally, call, failed, onDisk, everSeen, newCount, everNotified,
                 touches, restarts>>
  /\ Returned

\* send_notifications 106-108: the service is not properly configured
SkipNotifications ==
  /\ pc = "send"
  /\ TotalNew > 0
  /\ ~IsProperlyConfigured(email)
  /\ results' = Summary(NoTally)
  /\ pc' = "idle"
  /\ UNCHANGED <<state, file, lastSave, faults, clock, email, contents, idx, new_repos_by_user,
                 calls, tally, call, failed, onDisk, everSeen, newCount, everNotified,
                 touches, restarts>>
  /\ Returned

\* a tally that counts the sent notifications only
CountSuccesses(t, success) ==
  IF success THEN [t EXCEPT !.success = t.success + 1] ELSE t

\* send_batch_notification 120-125: the tally of one send_new_repo_notification
Count(t, success) ==
  IF success THEN [t EXCEPT !.success = t.success + 1]
  ELSE [t EXCEPT !.failure = t.failure + 1]

\* send_new_repo_notification without the try of lines 66-102
SendOrRaise(cfg, outcome) ==
  IF ~IsProperlyConfigured(cfg) THEN "False"
  ELSE IF outcome = "sent" THEN "True"
  ELSE "raise"

\* send_new_repo_notification (lines 62-102): False without sending when the
\* service is not properly configured, True once the message is sent, and False
\* when building or sending it raises (the except of line 100)
SendNewRepoNotification(cfg, outcome) ==
  IF ~IsProperlyConfigured(cfg) THEN "False"
  ELSE IF outcome = "sent" THEN "True"
  ELSE "False"

SendOutcomes == {"sent", "smtp_error"}

\* one turn of the loops of send_batch_notification: send_new_repo_notification
\* for the next new record
Notify ==
  /\ pc = "send"
  /\ TotalNew > 0
  /\ IsProperlyConfigured(email)
  /\ Len(calls) < TotalNew
  /\ LET repo == NewRecords[Len(calls) + 1] IN
     \E outcome \in SendOutcomes :
       LET returned == SendNewRepoNotification(email, outcome) IN
       /\ calls' = Append(calls, repo)
       /\ everNotified' = everNotified \cup {<<repo.owner, repo.id>>}
       /\ IF returned \notin {"True", "False"}
          THEN /\ pc' = "fatal"
               /\ UNCHANGED <<tally, results>>
          ELSE /\ tally' = Count(tally, returned = "True")
               /\ IF Len(calls') = TotalNew
                  THEN /\ results' = Summary(tally')
                       /\ pc' = "idle"
                  ELSE /\ results' = results
                       /\ pc' = "send"
  /\ UNCHANGED <<state, file, lastSave, faults, clock, email, contents, idx,
                 new_repos_by_user, call, failed, onDisk, everSeen, newCount, touches,
                 restarts>>
  /\ Returned

Next ==
  \/ StartCycle
  \/ ProcessUser
  \/ TouchLastCheck
  \/ NothingNew
  \/ SkipNotifications
  \/ Notify

\* poll cycles of one process, one after the other
Spec == Init /\ [][Next]_vars

\* ------------------------------------------- the StateManager used directly
\* a caller (as tests/test_app.py test_state_manager) uses the StateManager
\* between cycles; the locals and the summary of the last run_once are kept
\* until the next operation starts
ApiFrame ==
  /\ new_repos_by_user' = EmptyDict
  /\ calls' = <<>>
  /\ tally' = NoTally
  /\ results' = NoResults
  /\ failed' = {}
  /\ onDisk' = {}
  /\ touches' = 0
  /\ UNCHANGED <<email, contents, pc, idx, everSeen, newCount, everNotified, restarts, sched>>

CallUpdateRepositories ==
  /\ pc = "idle"
  /\ \E username \in UserSet : \E repositories \in RepoLists(username, contents) :
       /\ state' = UpdateRepositories(state, username, repositories)
       /\ SaveAfterUpdate(state')
       /\ call' = [op |-> "update", user |-> username, ok |-> TRUE,
                   repos |-> repositories,
                   known |-> GetKnownRepositories(state, username),
                   result |-> <<>>]
  /\ UNCHANGED clock
  /\ ApiFrame

CallDetectNewRepositories ==
  /\ pc = "idle"
  /\ \E username \in UserSet : \E current_repos \in RepoLists(username, contents) :
       call' = [op |-> "detect", user |-> username, ok |-> TRUE,
                repos |-> current_repos,
                known |-> GetKnownRepositories(state, username),
                result |-> DetectNewRepositories(state, username, current_repos)]
  /\ UNCHANGED <<state, file, lastSave, faults, clock>>
  /\ ApiFrame

CallUpdateLastCheckTime ==
  /\ pc = "idle"
  /\ \E now \in clock..MaxClock :
       /\ clock' = now
       /\ state' = SetLastCheck(state, now)
       /\ SaveAfterTouch(state')
  /\ call' = [op |-> "touch"]
  /\ ApiFrame

NextApi ==
  \/ StartCycle
  \/ ProcessUser
  \/ TouchLastCheck
  \/ NothingNew
  \/ SkipNotifications
  \/ CallUpdateRepositories
  \/ CallDetectNewRepositories
  \/ CallUpdateLastCheckTime

\* the disk does not fail in these runs, and the notifier has the settings of
\* config.py DEFAULT_CONFIG (not properly configured, so nothing is sent)
InitApi ==
  /\ InitBase
  /\ faults = MaxWriteFaults
  /\ email = DefaultEmail
  /\ contents = {"v1"}

SpecApi == InitApi /\ [][NextApi]_vars

\* the StateManager alone: merges, detections and time stamps in any order
NextStore ==
  \/ CallUpdateRepositories
  \/ CallDetectNewRepositories
  \/ CallUpdateLastCheckTime

SpecStore == InitApi /\ [][NextStore]_vars

\* ------------------------------------------------------ stop and restart
\* json.dump leaving out the accounts that have no record
JsonDumpSparse(st) ==
  [last_check |-> st.last_check,
   repositories |->
     {<<u, {<<k, st.repositories[u][k]>> : k \in DOMAIN st.repositories[u]}>> :
        u \in {v \in DOMAIN st.repositories : DOMAIN st.repositories[v] # {}}}]

\* json.dump (line 68): the text of a state, an object whose members are
\* pairs of a key and a value; the keys of the state are strings already
JsonDump(st) ==
  [last_check |-> st.last_check,
   repositories |->
     {<<u, {<<k, st.repositories[u][k]>> : k \in DOMAIN st.repositories[u]}>> :
        u \in DOMAIN st.repositories}]

\* the dictionary json.load builds from the members of an object
FromMembers(members) ==
  [k \in {m[1] : m \in members} |-> (CHOOSE m \in members : m[1] = k)[2]]

\* json.load (line 35) on the text of a state
JsonLoad(text) ==
  LET accounts == FromMembers(text.repositories)
  IN [last_check |-> text.last_check,
      repositories |-> [u \in DOMAIN accounts |-> FromMembers(accounts[u])]]

\* a JSON object that is no GlobalState: {"last_check": ""}
NotAState == [last_check |-> 0]

\* what the state file can hold when the program starts: nothing ("missing"), a
\* state the program wrote ("json"), JSON that is no state ("other_json"), text
\* that is no JSON ("garbage"), bytes that are no text ("binary"), or it cannot
\* be opened ("unreadable")
FileKinds == {"missing", "json", "other_json", "garbage", "binary", "unreadable"}

\* _load_state (lines 32-40): json.load returns a value
Loadable(f) == f.kind \in {"json", "other_json"}

\* _load_state: json.load raises UnicodeDecodeError, which lines 36-38 do not
\* handle
LoadRaises(f) == f.kind = "binary"

\* _load_state (lines 32-40): what json.load returns, or the default state
\* when the file is missing, cannot be opened or does not parse
LoadState(f) ==
  IF f.kind = "json" THEN JsonLoad(JsonDump(f.doc))
  ELSE IF f.kind = "other_json" THEN f.doc
  ELSE DefaultState

\* the process stops where it is and is started again: NotificationApp and its
\* StateManager are constructed anew, the memory of the old process is gone
Restart ==
  /\ restarts < MaxRestarts
  /\ restarts' = restarts + 1
  /\ state' = LoadState(file)
  /\ IF Loadable(file)
     THEN /\ file' = file
          /\ lastSave' = "none"
          /\ faults' = faults
     ELSE SaveState(state')
  /\ pc' = "idle"
  /\ idx' = 0
  /\ new_repos_by_user' = EmptyDict
  /\ calls' = <<>>
  /\ tally' = NoTally
  /\ results' = NoResults
  /\ call' = NoCall
  /\ failed' = {}
  /\ onDisk' = {}
  /\ touches' = 0
  /\ UNCHANGED <<clock, email, contents, everSeen, newCount, everNotified, sched>>

NextCrash ==
  \/ StartCycle
  \/ ProcessUser
  \/ TouchLastCheck
  \/ NothingNew
  \/ Notify
  \/ Restart

\* the notifier is properly configured and the disk does not fail in these runs
InitCrash ==
  /\ InitBase
  /\ faults = MaxWriteFaults
  /\ email = CompleteEmail
  /\ contents = {"v1"}

\* cycles with notifications, and restarts
SpecCrash == InitCrash /\ [][NextCrash]_vars

NextCrashIO ==
  \/ StartCycle
  \/ ProcessUser
  \/ TouchLastCheck
  \/ NothingNew
  \/ SkipNotifications
  \/ Restart

\* one write of the state file can fail in these runs, and the notifier has the
\* settings of config.py DEFAULT_CONFIG (nothing is sent)
InitCrashIO ==
  /\ InitBase
  /\ faults = MaxWriteFaults - 1
  /\ email = DefaultEmail
  /\ contents = {"v1"}

\* cycles, failing writes and restarts
SpecCrashIO == InitCrashIO /\ [][NextCrashIO]_vars

\* ------------------------------------------------------ the first start
\* NotificationApp.__init__ (main.py 37-56) constructs the StateManager, which
\* loads the state file; an exception of _load_state escapes the constructor
Construct ==
  /\ pc = "off"
  /\ IF LoadRaises(file)
     THEN /\ pc' = "fatal"
          /\ UNCHANGED <<state, file, lastSave, faults>>
     ELSE /\ pc' = "idle"
          /\ state' = LoadState(file)
          /\ IF Loadable(file)
             THEN /\ file' = file
                  /\ lastSave' = "none"
                  /\ faults' = faults
             ELSE SaveState(state')
  /\ UNCHANGED <<clock, email, contents, idx, new_repos_by_user, calls, tally, results,
                 call, failed, onDisk, everSeen, newCount, everNotified, touches,
                 restarts, sched>>

\* states an earlier run of the program can have left in the file
StoredStates ==
  {DefaultState,
   SetLastCheck(UpdateRepositories(DefaultState, Users[1],
                                   <<Repo(Users[1], 9, "v1")>>), 1)}

\* what the program can find at the path of the state file
StartFiles ==
  {[kind |-> "json", doc |-> st] : st \in StoredStates}
    \cup {[kind |-> "other_json", doc |-> NotAState]}
    \cup {[kind |-> k, doc |-> DefaultState] :
            k \in {"missing", "garbage", "binary", "unreadable"}}

\* the program before NotificationApp is constructed; the disk does not fail
InitOff ==
  /\ state = DefaultState
  /\ lastSave = "none"
  /\ faults = MaxWriteFaults
  /\ clock = 1
  /\ contents = {"v1"}
  /\ pc = "off"
  /\ idx = 0
  /\ new_repos_by_user = EmptyDict
  /\ calls = <<>>
  /\ tally = NoTally
  /\ results = NoResults
  /\ call = NoCall
  /\ failed = {}
  /\ onDisk = {}
  /\ everSeen = {}
  /\ newCount = [p \in Pairs |-> 0]
  /\ everNotified = {}
  /\ touches = 0
  /\ restarts = 0

\* the program is started on some file, and the notifier has the settings of
\* config.py DEFAULT_CONFIG
InitLoad ==
  /\ InitOff
  /\ file \in StartFiles
  /\ email = DefaultEmail
  /\ sched = "direct"

NextLoad ==
  \/ Construct
  \/ StartCycle
  \/ ProcessUser
  \/ TouchLastCheck
  \/ NothingNew
  \/ SkipNotifications

\* a start on any file, then poll cycles
SpecLoad == InitLoad /\ [][NextLoad]_vars

\* ------------------------------------------------- the reads on their own
\* a lookup that gives an unseen account an empty entry, as setdefault does
LookupCreatingEntry(st, username) ==
  IF username \in DOMAIN st.repositories THEN st
  ELSE [st EXCEPT !.repositories = DictSet(st.repositories, username, EmptyDict)]

\* self.state after get_known_repositories (lines 82-85): the dictionary is
\* tested with "in" and read, nothing is assigned
StateAfterLookup(st, username) == st

\* a caller asks for the known ids of an account
CallGetKnownRepositories ==
  /\ pc = "idle"
  /\ \E username \in UserSet :
       /\ state' = StateAfterLookup(state, username)
       /\ call' = [op |-> "known", user |-> username, ok |-> TRUE, repos |-> <<>>,
                   known |-> GetKnownRepositories(state, username),
                   result |-> <<>>]
  /\ NoSave
  /\ UNCHANGED clock
  /\ ApiFrame

\* a caller asks which records of a list are new; the known ids are looked up
\* by get_known_repositories (line 115)
CallDetectOnly ==
  /\ pc = "idle"
  /\ \E username \in UserSet : \E current_repos \in RepoLists(username, contents) :
       /\ state' = StateAfterLookup(state, username)
       /\ call' = [op |-> "detect", user |-> username, ok |-> TRUE,
                   repos |-> current_repos,
                   known |-> GetKnownRepositories(state, username),
                   result |-> DetectNewRepositories(state, username, current_repos)]
  /\ NoSave
  /\ UNCHANGED clock
  /\ ApiFrame

NextRead ==
  \/ CallUpdateRepositories
  \/ CallGetKnownRepositories
  \/ CallDetectOnly

\* merges, one of whose writes can fail, and reads in any order
InitRead ==
  /\ InitBase
  /\ faults = MaxWriteFaults - 1
  /\ email = DefaultEmail
  /\ contents = {"v1"}

SpecRead == InitRead /\ [][NextRead]_vars

\* ------------------------------------------------ merges over a loaded state
\* the states an earlier run has left in the file: none, one account, and two
\* accounts that both have the repository id 9; the stored records have the
\* content the remote records had then
MergeStarts ==
  {DefaultState,
   SetLastCheck(UpdateRepositories(DefaultState, Users[1],
                                   <<Repo(Users[1], 9, "v2")>>), 1),
   SetLastCheck(UpdateRepositories(
                  UpdateRepositories(DefaultState, Users[1],
                                     <<Repo(Users[1], 9, "v2"), Repo(Users[1], 10, "v2")>>),
                  Users[2], <<Repo(Users[2], 9, "v2")>>), 1)}

NextMerge ==
  \/ CallUpdateRepositories
  \/ CallDetectNewRepositories

\* a StateManager that has loaded the state of an earlier run; the remote
\* records have another content now, and the disk does not fail
InitMerge ==
  /\ state \in MergeStarts
  /\ file = [kind |-> "json", doc |-> state]
  /\ lastSave = "none"
  /\ faults = MaxWriteFaults
  /\ clock = 1
  /\ email = DefaultEmail
  /\ contents = {"v1"}
  /\ pc = "idle"
  /\ idx = 0
  /\ new_repos_by_user = EmptyDict
  /\ calls = <<>>
  /\ tally = NoTally
  /\ results = NoResults
  /\ call = NoCall
  /\ failed = {}
  /\ onDisk = {}
  /\ everSeen = {}
  /\ newCount = [p \in Pairs |-> 0]
  /\ everNotified = {}
  /\ touches = 0
  /\ restarts = 0
  /\ sched = "direct"

SpecMerge == InitMerge /\ [][NextMerge]_vars

\* ------------------------------------------- records that change upstream
NextDup ==
  \/ StartCycle
  \/ ProcessUser
  \/ TouchLastCheck
  \/ NothingNew
  \/ SkipNotifications
  \/ Notify

\* the remote records can have either content, so that two records of one
\* list with the same id can differ; the disk does not fail and the clock
\* reads one time throughout
InitDup ==
  /\ state = DefaultState
  /\ file = [kind |-> "json", doc |-> DefaultState]
  /\ lastSave = "ok"
  /\ faults = MaxWriteFaults
  /\ clock = MaxClock
  /\ email \in EmailConfigs
  /\ contents = Vers
  /\ pc = "idle"
  /\ idx = 0
  /\ new_repos_by_user = EmptyDict
  /\ calls = <<>>
  /\ tally = NoTally
  /\ results = NoResults
  /\ call = NoCall
  /\ failed = {}
  /\ onDisk = {}
  /\ everSeen = {}
  /\ newCount = [p \in Pairs |-> 0]
  /\ everNotified = {}
  /\ touches = 0
  /\ restarts = 0
  /\ sched = "direct"

\* poll cycles over lists whose records can repeat an id with another content
SpecDup == InitDup /\ [][NextDup]_vars

\* ------------------------------------------------ EmailService on its own
\* the settings of the email section and the values a configuration file can
\* give them
EmailKeys == DOMAIN CompleteEmail
FullEmailConfigs ==
  [enabled : BOOLEAN, smtp_server : {"", CompleteEmail.smtp_server},
   smtp_port : {0, CompleteEmail.smtp_port},
   sender_email : {"", CompleteEmail.sender_email},
   sender_password : {"", CompleteEmail.sender_password},
   recipient_email : {"", CompleteEmail.recipient_email}]

\* the dictionaries EmailService can be constructed with: every setting is
\* absent, empty or set
ConfigDicts ==
  {[k \in D |-> full[k]] : full \in FullEmailConfigs, D \in SUBSET EmailKeys}

\* config.get(key, default)
DictGet(config, key, default) == IF key \in DOMAIN config THEN config[key] ELSE default

\* EmailService.__init__ (lines 22-28)
EmailServiceInit(config) ==
  [enabled |-> DictGet(config, "enabled", FALSE),
   smtp_server |-> DictGet(config, "smtp_server", "smtp.gmail.com"),
   smtp_port |-> DictGet(config, "smtp_port", 587),
   sender_email |-> DictGet(config, "sender_email", ""),
   sender_password |-> DictGet(config, "sender_password", ""),
   recipient_email |-> DictGet(config, "recipient_email", "")]

EmailFrame ==
  UNCHANGED <<state, file, lastSave, faults, clock, email, contents, pc, idx,
              new_repos_by_user, calls, tally, results, failed, onDisk, everSeen,
              newCount, everNotified, touches, restarts, sched>>

\* a caller asks the service whether it is properly configured
CallIsProperlyConfigured ==
  /\ pc = "idle"
  /\ call' = [op |-> "is_properly_configured", config |-> call.config,
              returned |-> IsProperlyConfiguredValue(email)]
  /\ EmailFrame

\* a caller asks the service to send the notification of one repository
CallSendNewRepoNotification ==
  /\ pc = "idle"
  /\ \E outcome \in SendOutcomes :
       call' = [op |-> "send_new_repo_notification", config |-> call.config,
                outcome |-> outcome, attempted |-> SendAttempted(email),
                returned |-> SendNewRepoNotification(email, outcome)]
  /\ EmailFrame

NextEmail ==
  \/ CallIsProperlyConfigured
  \/ CallSendNewRepoNotification

\* an EmailService constructed with any dictionary
InitEmail ==
  /\ state = DefaultState
  /\ file = [kind |-> "json", doc |-> DefaultState]
  /\ lastSave = "ok"
  /\ faults = 0
  /\ clock = 1
  /\ contents = {"v1"}
  /\ pc = "idle"
  /\ idx = 0
  /\ new_repos_by_user = EmptyDict
  /\ calls = <<>>
  /\ tally = NoTally
  /\ results = NoResults
  /\ failed = {}
  /\ onDisk = {}
  /\ everSeen = {}
  /\ newCount = [p \in Pairs |-> 0]
  /\ everNotified = {}
  /\ touches = 0
  /\ restarts = 0
  /\ sched = "direct"
  /\ \E config \in ConfigDicts :
       /\ email = EmailServiceInit(config)
       /\ call = [op |-> "init", config |-> config]

SpecEmail == InitEmail /\ [][NextEmail]_vars

\* ---------------------------------------------------------- run_scheduled
\* a loop that takes its next turn at once
AfterRunOnceNoSleep == "woke"

\* run_scheduled line 156: time.sleep follows the return of run_once
AfterRunOnce == "sleeping"

\* a handler that logs the exception and lets the loop go on
OnExceptionRetry == "woke"

\* run_scheduled lines 159-161: an exception of the loop is logged and raised
\* again
OnException == "raised"

\* run_scheduled without its lines 157-158: the interrupt leaves it as an
\* exception
OnInterruptRaise == "raised"

\* run_scheduled lines 157-158: the interrupt is logged, run_scheduled returns
OnInterrupt == "stopped"

\* the positions of run_scheduled inside its try (lines 152-156)
InLoop == {"begin", "cycle", "returned", "sleeping", "woke"}

\* run_scheduled line 156: time.sleep is called
SleepStart ==
  /\ sched = "returned"
  /\ pc = "idle"
  /\ sched' = AfterRunOnce
  /\ UNCHANGED <<state, file, lastSave, faults, clock, email, contents, pc, idx,
                 new_repos_by_user, calls, tally, results, call, failed, onDisk,
                 everSeen, newCount, everNotified, touches, restarts>>

\* run_scheduled line 156: time.sleep returns, the loop takes its next turn
SleepEnd ==
  /\ sched = "sleeping"
  /\ sched' = "woke"
  /\ UNCHANGED <<state, file, lastSave, faults, clock, email, contents, pc, idx,
                 new_repos_by_user, calls, tally, results, call, failed, onDisk,
                 everSeen, newCount, everNotified, touches, restarts>>

\* run_scheduled lines 157-158: a KeyboardInterrupt, raised wherever the loop
\* is (no handler inside run_once catches it: they catch Exception, IOError
\* and RequestException), is logged; run_scheduled returns and main with it
Interrupt ==
  /\ sched \in InLoop
  /\ pc \in {"idle", "process", "touch", "send"}
  /\ sched' = OnInterrupt
  /\ pc' = "idle"
  /\ UNCHANGED <<state, file, lastSave, faults, clock, email, contents, idx,
                 new_repos_by_user, calls, tally, results, call, failed, onDisk,
                 everSeen, newCount, everNotified, touches, restarts>>

\* run_scheduled lines 159-161: an exception that escaped run_once
Propagate ==
  /\ sched \in InLoop
  /\ pc = "fatal"
  /\ sched' = OnException
  /\ pc' = "idle"
  /\ UNCHANGED <<state, file, lastSave, faults, clock, email, contents, idx,
                 new_repos_by_user, calls, tally, results, call, failed, onDisk,
                 everSeen, newCount, everNotified, touches, restarts>>

\* how the process ends: main returns, or an exception leaves main
ExitCode(s) == IF s = "stopped" THEN 0 ELSE IF s = "raised" THEN 1 ELSE -1

\* the program is started without --once, on a state file of an earlier run or
\* on one that holds no state
InitSched ==
  /\ InitOff
  /\ file \in {[kind |-> "json", doc |-> DefaultState],
               [kind |-> "other_json", doc |-> NotAState]}
  /\ email \in EmailConfigs
  /\ sched = "begin"

NextSched ==
  \/ Construct
  \/ StartCycle
  \/ ProcessUser
  \/ TouchLastCheck
  \/ NothingNew
  \/ SkipNotifications
  \/ Notify
  \/ SleepStart
  \/ SleepEnd
  \/ Interrupt
  \/ Propagate

\* main without --once: the construction, then run_scheduled
SpecSched == InitSched /\ [][NextSched]_vars

\* ------------------------------------------------------------------ main
\* the words of a command line: the flag and a path
ArgWords == {"--once", "my.json"}

\* sys.argv: the name of the script, then the arguments
Argvs == {<<"main.py">> \o args : args \in SeqsUpTo(ArgWords, MaxArgs)}

\* x in sys.argv
InArgv(x, argv) == \E n \in 1..Len(argv) : argv[n] = x

\* main line 166: sys.argv[1] if len(sys.argv) > 1 else "config.json"
ConfigPath(argv) == IF Len(argv) > 1 THEN argv[2] ELSE "config.json"

\* main line 172: "--once" in sys.argv
OnceFlag(argv) == InArgv("--once", argv)

\* the configuration files on the disk, and the email section each holds
ConfigFilesOnDisk == {"config.json", "my.json"}
EmailSectionOf(path) ==
  IF path = "config.json" THEN CompleteEmail
  ELSE [CompleteEmail EXCEPT !.recipient_email = "other@example.com"]

\* Config._load_config: the file at the path, or DEFAULT_CONFIG, which
\* _create_default_config writes to the path, when there is no such file
LoadEmailSection(path) ==
  IF path \in ConfigFilesOnDisk THEN EmailSectionOf(path) ELSE DefaultEmail

\* main lines 166-175: the path is taken from the command line, the
\* application is constructed with it, and run_once or run_scheduled is called
Main ==
  /\ pc = "off"
  /\ sched = "main"
  /\ \E argv \in Argvs :
       LET config_path == ConfigPath(argv) IN
       /\ call' = [op |-> "main", argv |-> argv, config_path |-> config_path,
                   created |-> config_path \notin ConfigFilesOnDisk]
       /\ email' = LoadEmailSection(config_path)
       /\ sched' = IF OnceFlag(argv) THEN "once" ELSE "begin"
  /\ state' = LoadState(file)
  /\ pc' = "idle"
  /\ lastSave' = "none"
  /\ UNCHANGED <<file, faults, clock, contents, idx, new_repos_by_user, calls, tally,
                 results, failed, onDisk, everSeen, newCount, everNotified, touches,
                 restarts>>

\* main line 173: run_once is called, once
StartOnce ==
  /\ pc = "idle"
  /\ sched = "once"
  /\ sched' = "once_cycle"
  /\ pc' = "process"
  /\ idx' = 1
  /\ new_repos_by_user' = EmptyDict
  /\ calls' = <<>>
  /\ tally' = NoTally
  /\ call' = NoCall
  /\ failed' = {}
  /\ onDisk' = {}
  /\ touches' = 0
  /\ results' = NoResults
  /\ UNCHANGED <<state, file, lastSave, faults, clock, email, contents, everSeen,
                 newCount, everNotified, restarts>>

\* run_once has returned to main, and main returns
ExitOnce ==
  /\ pc = "idle"
  /\ sched = "once_cycle"
  /\ sched' = "stopped"
  /\ UNCHANGED <<state, file, lastSave, faults, clock, email, contents, pc, idx,
                 new_repos_by_user, calls, tally, results, call, failed, onDisk,
                 everSeen, newCount, everNotified, touches, restarts>>

\* the program is started from the command line, on the state file of an
\* earlier run; the disk does not fail
InitMain ==
  /\ InitOff
  /\ file = [kind |-> "json", doc |-> DefaultState]
  /\ email = DefaultEmail
  /\ sched = "main"

NextMain ==
  \/ Main
  \/ StartOnce
  \/ ExitOnce
  \/ StartCycle
  \/ ProcessUser
  \/ TouchLastCheck
  \/ NothingNew
  \/ SkipNotifications
  \/ Notify
  \/ SleepStart
  \/ SleepEnd

SpecMain == InitMain /\ [][NextMain]_vars

\* -------------------------------------------------- save, then load again
NextRoundTrip ==
  \/ CallUpdateRepositories
  \/ CallUpdateLastCheckTime
  \/ Restart

\* the disk does not fail: every save is made
InitRoundTrip ==
  /\ InitBase
  /\ faults = MaxWriteFaults
  /\ email = DefaultEmail
  /\ contents = {"v1"}

\* merges and time stamps through the StateManager, and a new StateManager
\* on the file they wrote
SpecRoundTrip == InitRoundTrip /\ [][NextRoundTrip]_vars

\* ------------------------------------------------------------ Properties
\* the repository ids stored for a user, read off the stored keys
StoredIds(st, u) ==
  IF u \in DOMAIN st.repositories
  THEN {i \in Ids : Str(i) \in DOMAIN st.repositories[u]}
  ELSE {}

\* the ids of a list of records, in order
IdsOf(repos) == [n \in 1..Len(repos) |-> repos[n].id]

\* the new list run_once holds for a user, empty when it holds none
NewFor(u) == IF u \in DOMAIN new_repos_by_user THEN new_repos_by_user[u] ELSE <<>>

\* the step is one turn of the loop of check_for_new_repositories
IsProcessStep == pc = "process" /\ idx' = idx + 1

\* the step is a restart of the program
IsRestart == restarts' = restarts + 1

\* C1: a repository id of an account is reported as new in exactly one poll
\* cycle, the first whose fetch result for the account holds it; no later cycle
\* reports it again, whether or not some fetch in between lacked it.
C1_NewExactlyOnce ==
  \A p \in Pairs : newCount[p] = IF p \in everSeen THEN 1 ELSE 0

\* a cycle fetched ids that were all known already and reported nothing
C1_Witness ==
  /\ call.op = "process"
  /\ call.ok
  /\ call.repos # <<>>
  /\ call.result = <<>>
  /\ touches = 0
  /\ \A n \in 1..Len(call.repos) : newCount[<<call.user, call.repos[n].id>>] = 1

\* C2: get_known_repositories of an account never loses an id: after any
\* operation, update_repositories with a list that lacks a known id included,
\* it is a superset of what it was before.
C2_KnownIdsNeverShrink ==
  [][\A u \in UserSet :
       GetKnownRepositories(state, u) \subseteq GetKnownRepositories(state', u)]_vars

\* update_repositories was called with a non-empty list that lacks a known id,
\* and the id is known still
C2_Witness ==
  /\ call.op = "update"
  /\ call.repos # <<>>
  /\ \E i \in call.known :
       /\ \A n \in 1..Len(call.repos) : call.repos[n].id # i
       /\ i \in GetKnownRepositories(state, call.user)

\* the positions of a list whose id is not in a set
Picked(C, K) == {n \in 1..Len(C) : C[n].id \notin K}

\* R is C restricted to the records whose id is not in K, in the order of C
IsOrderedSelection(R, C, K) ==
  /\ Len(R) = Cardinality(Picked(C, K))
  /\ \A j \in 1..Len(R) :
       \E n \in Picked(C, K) :
         /\ Cardinality({m \in Picked(C, K) : m <= n}) = j
         /\ R[j] = C[n]

\* C3: detect_new_repositories(account, C) returns the records of C whose id is
\* not among the ids stored for the account, in the order of C, and leaves the
\* state as it was.
C3_DetectIsOrderedFilter ==
  [][/\ (pc = "idle" /\ call'.op = "detect") =>
          /\ state' = state
          /\ IsOrderedSelection(call'.result, call'.repos,
                                StoredIds(state, call'.user))
     /\ (IsProcessStep /\ call'.op = "process") =>
          IsOrderedSelection(call'.result, call'.repos,
                             StoredIds(state, call'.user))]_vars

\* with 9 stored, detecting in <<9, 10>> gives the record of 10 alone
C3_Witness ==
  /\ call.op = "detect"
  /\ StoredIds(state, call.user) = {9}
  /\ IdsOf(call.repos) = <<9, 10>>
  /\ call.result = <<call.repos[2]>>

\* C4: a failed fetch for one account gives that account the empty list, which
\* yields no new record for it; it never aborts the cycle; and the cycle
\* reports every new record of the accounts whose fetch succeeded.
C4_FetchFailureIsolated ==
  /\ pc # "fatal"
  /\ \A u \in failed : NewFor(u) = <<>>
  /\ call.op = "process" =>
       /\ ~call.ok => call.repos = <<>> /\ call.result = <<>>
       /\ call.ok =>
            /\ \A n \in 1..Len(call.repos) :
                 call.repos[n].id \notin call.known =>
                   \E m \in 1..Len(NewFor(call.user)) :
                     NewFor(call.user)[m] = call.repos[n]
       /\ pc = "process" => ENABLED ProcessUser
       /\ pc = "touch" => ENABLED TouchLastCheck
  /\ results.cycle =>
       /\ results.checked_users = Len(Users)
       /\ results.new_repositories = TotalNew

\* a cycle completed in which the fetch for alice failed and bob had new records
C4_Witness ==
  /\ results.cycle
  /\ failed = {"alice"}
  /\ NewFor("bob") # <<>>
  /\ results.new_repositories = Len(NewFor("bob"))

\* the stored entry of a user, if any
EntryOf(st, u) ==
  IF u \in DOMAIN st.repositories THEN <<st.repositories[u]>> ELSE <<>>

C6_AtLeastOnce ==
  (pc = "idle" /\ results.cycle /\ IsProperlyConfigured(email)) =>
    \A u \in UserSet : \A i \in StoredIds(file.doc, u) : <<u, i>> \in everNotified

\* the records notify was invoked for in this cycle are the first ones of the
\* cycle's new records, in their order
CallsArePrefix ==
  /\ Len(calls) <= TotalNew
  /\ \A k \in 1..Len(calls) : calls[k] = NewRecords[k]

\* C7 (as stated): in every run_once notify is invoked exactly once for each new
\* record and notifications_sent + notifications_failed = new_repositories.
C7_TallyCoversNewRecords ==
  results.cycle =>
    /\ calls = NewRecords
    /\ results.notifications_sent + results.notifications_failed
         = results.new_repositories

\* C7 (amended): every notify invocation is tallied as one success or one
\* failure; with a properly configured notifier a cycle invokes notify exactly
\* once for each new record, so that sent + failed = new_repositories; with a
\* notifier that is disabled or not fully configured notify is not invoked at
\* all and the cycle reports 0 sent and 0 failed.
C7_TallyCoversInvocations ==
  /\ tally.success + tally.failure = Len(calls)
  /\ CallsArePrefix
  /\ results.cycle =>
       /\ results.new_repositories = TotalNew
       /\ results.notifications_sent = tally.success
       /\ results.notifications_failed = tally.failure
       /\ IF IsProperlyConfigured(email)
          THEN /\ calls = NewRecords
               /\ results.notifications_sent + results.notifications_failed
                    = results.new_repositories
          ELSE /\ calls = <<>>
               /\ results.notifications_sent = 0
               /\ results.notifications_failed = 0

\* a cycle with new records completed, one notification sent and one failed
C7_Witness ==
  /\ results.cycle
  /\ IsProperlyConfigured(email)
  /\ results.new_repositories >= 2
  /\ results.notifications_sent >= 1
  /\ results.notifications_failed >= 1

\* the cycle goes on after a notify call: the next record is attempted, or the
\* cycle has completed with its result
BatchGoesOn ==
  /\ pc # "fatal"
  /\ (pc = "send" /\ calls # <<>>) => ENABLED Notify
  /\ (results.cycle /\ calls # <<>>) => calls = NewRecords

HoldsRecordsOf(loaded, memory, u) ==
  u \in DOMAIN memory.repositories =>
    \A k \in DOMAIN memory.repositories[u] :
      /\ u \in DOMAIN loaded.repositories
      /\ k \in DOMAIN loaded.repositories[u]
      /\ loaded.repositories[u][k] = memory.repositories[u][k]

IsConstruct == pc = "off" /\ pc' # "off"

\* C11 (as stated): whenever the state file is missing, unreadable or holds no
\* usable GlobalState, the construction does not fail, the in-memory state is
\* the empty GlobalState, the empty state is written to the file, and no later
\* operation fails.
C11_LoadIsFailSoft ==
  [][/\ pc' # "fatal"
     /\ (IsConstruct /\ file.kind # "json") =>
          /\ state' = DefaultState
          /\ file' = [kind |-> "json", doc |-> DefaultState]]_vars

C13_MergedIsNeverNew ==
  [][/\ call'.op = "update" =>
          DetectNewRepositories(state', call'.user, call'.repos) = <<>>
     /\ \A u \in UserSet : \A R \in RepoLists(u, contents) :
          DetectNewRepositories(state, u, R) = <<>> =>
            DetectNewRepositories(state', u, R) = <<>>]_vars

\* detect_new_repositories was called with a list of two records that had been
\* merged, after a later time stamp, and returned the empty list
C13_Witness ==
  /\ call.op = "detect"
  /\ IdsOf(call.repos) = <<10, 9>>
  /\ call.result = <<>>
  /\ state.last_check > 0

\* a poll cycle is in progress
InCycle == pc \in {"process", "touch", "send"}

\* C14: in run_scheduled the execution is cycle, sleep, cycle: a cycle starts
\* only at the first turn of the loop or when the sleep that followed the
\* return of the previous cycle has finished, the sleep starts only when the
\* cycle has returned, and no cycle starts while one is in progress.
C14_CyclesNeverOverlap ==
  [][/\ (~InCycle /\ pc' = "process") =>
          /\ sched \in {"begin", "woke"}
          /\ sched' = "cycle"
     /\ InCycle => sched = "cycle"
     /\ (sched' = "returned" /\ sched # "returned") => (sched = "cycle" /\ ~InCycle')
     /\ (sched' = "sleeping" /\ sched # "sleeping") => (sched = "returned" /\ ~InCycle)
     /\ (sched' = "woke" /\ sched # "woke") => sched = "sleeping"
     /\ sched \in {"returned", "sleeping", "woke"} => ~InCycle]_vars

\* a second cycle is in progress: one cycle set last_check before it
C14_Witness ==
  /\ sched = "cycle"
  /\ pc = "process"
  /\ idx = 2
  /\ state.last_check > 0

\* C15: an exception that escapes a poll cycle ends run_scheduled and is
\* raised to the caller: no cycle is started after it, nothing is retried.
C15_EscapedExceptionEndsLoop ==
  [][/\ (pc = "fatal" /\ sched \in InLoop) =>
          /\ ENABLED Propagate
          /\ sched' \in {sched, "raised"}
          /\ ~InCycle'
     /\ sched = "raised" => UNCHANGED vars]_vars

\* the exception of a cycle was raised out of run_scheduled, and the process
\* ends with an error
C15_Witness ==
  /\ sched = "raised"
  /\ ~Usable(state)
  /\ results = NoResults
  /\ ExitCode(sched) = 1

\* C16: an interrupt delivered while run_scheduled is in its sleep or in a
\* cycle ends the loop as a normal shutdown: run_scheduled returns without
\* raising, no further cycle starts, and the process exits with code 0.
C16_InterruptStopsCleanly ==
  [][/\ (sched \in InLoop /\ pc # "fatal" /\ pc # "off") => ENABLED Interrupt
     /\ (sched' = "raised" /\ sched # "raised") => pc = "fatal"
     /\ (sched' = "stopped" /\ sched # "stopped") => ExitCode(sched') = 0
     /\ sched = "stopped" => UNCHANGED vars]_vars

\* the interrupt came in a cycle, after the first user and before the second
C16_Witness ==
  /\ sched = "stopped"
  /\ idx = 2
  /\ results = NoResults
  /\ "alice" \in DOMAIN state.repositories
  /\ "bob" \notin DOMAIN state.repositories

\* the step is the update_last_check_time of a cycle
IsTouchStep == pc = "touch" /\ touches' = touches + 1

\* C17: under a clock that does not go back, last_check never decreases, in
\* memory and in the file; it changes only in update_last_check_time, which
\* sets it to the reading of the clock, and when the state is loaded or
\* created anew at the construction.
C17_LastCheckNeverDecreases ==
  [][/\ clock' >= clock
     /\ state'.last_check >= state.last_check
     /\ state'.last_check # state.last_check =>
          \/ IsTouchStep /\ state'.last_check = clock'
          \/ IsConstruct
     /\ (file'.kind = "json" /\ file.kind = "json") =>
          file'.doc.last_check >= file.doc.last_check]_vars

\* a state loaded with a last_check of an earlier run got a later one in a
\* cycle of this run
C17_Witness ==
  /\ results.cycle
  /\ StoredIds(state, "alice") = {9}
  /\ everSeen = {}
  /\ state.last_check = MaxClock
  /\ file.doc.last_check = MaxClock

\* the keys of the dictionary run_once returns
ResultKeys == DOMAIN results \ {"cycle"}

\* the per-account lists of new records a result carries, if it carries them
CarriedNewLists ==
  IF "new_repos_by_user" \in ResultKeys THEN <<results["new_repos_by_user"]>> ELSE <<>>

RECURSIVE SumOfNew(_)
SumOfNew(n) == IF n = 0 THEN 0 ELSE SumOfNew(n - 1) + Len(NewFor(Users[n]))

\* C18 (as stated): the result of run_once carries, per account, the list of
\* new records, and its check_time is the last_check the cycle stored.
C18_ResultCarriesNewLists ==
  results.cycle =>
    /\ CarriedNewLists = <<new_repos_by_user>>
    /\ file.doc.last_check = results.check_time

\* C18 (amended): the result of run_once is a summary of five aggregates and
\* carries no per-account list: the number of configured accounts, the total
\* number of new repositories (the sum of the lengths of the per-account new
\* lists of the cycle), the notification success and failure counts, and the
\* check time, which is the in-memory last_check that the cycle's one
\* update_last_check_time set from the clock; the file holds that last_check
\* when the write of the state succeeded.
C18_ResultIsSummary ==
  results.cycle =>
    /\ ResultKeys = {"checked_users", "new_repositories", "notifications_sent",
                     "notifications_failed", "check_time"}
    /\ results.checked_users = Cardinality(UserSet)
    /\ results.new_repositories = SumOfNew(Len(Users))
    /\ results.notifications_sent = tally.success
    /\ results.notifications_failed = tally.failure
    /\ touches = 1
    /\ results.check_time = state.last_check
    /\ results.check_time = clock
    /\ lastSave = "ok" => file.doc.last_check = results.check_time

\* a cycle found new records for both accounts, two for one of them, and
\* returned its summary after a notification was sent and one failed
C18_Witness ==
  /\ results.cycle
  /\ Len(NewFor("alice")) = 2
  /\ Len(NewFor("bob")) >= 1
  /\ results.new_repositories >= 3
  /\ results.notifications_sent >= 1
  /\ results.notifications_failed >= 1
  /\ results.check_time = MaxClock

\* the service is enabled and its five settings are non-empty
EnabledAndComplete ==
  /\ email.enabled = TRUE
  /\ email.smtp_server # ""
  /\ email.smtp_port # 0
  /\ email.sender_email # ""
  /\ email.sender_password # ""
  /\ email.recipient_email # ""

\* the configuration dictionary lacks a credential or the recipient
LacksCredential ==
  {"sender_email", "sender_password", "recipient_email"} \ DOMAIN call.config # {}

\* C19: is_properly_configured holds exactly when the service is enabled and
\* smtp_server, smtp_port, sender_email, sender_password and recipient_email are
\* all non-empty; a configuration with a credential or the recipient missing is
\* reported as not properly configured, and send_new_repo_notification then
\* returns failure without attempting to send.
C19_ConfiguredIffComplete ==
  /\ IsProperlyConfigured(email) <=> Truthy(IsProperlyConfiguredValue(email))
  /\ call.op = "is_properly_configured" =>
       /\ Truthy(call.returned) <=> EnabledAndComplete
       /\ LacksCredential => ~Truthy(call.returned)
  /\ (call.op = "send_new_repo_notification" /\ ~EnabledAndComplete) =>
       /\ call.returned = "False"
       /\ ~call.attempted
  /\ (call.op = "send_new_repo_notification" /\ LacksCredential) =>
       /\ call.returned = "False"
       /\ ~call.attempted

\* a service whose configuration has everything but the recipient was asked
\* to send, with a server that would have accepted the message
C19_Witness ==
  /\ call.op = "send_new_repo_notification"
  /\ DOMAIN call.config = EmailKeys \ {"recipient_email"}
  /\ email.enabled
  /\ email.sender_email # ""
  /\ email.sender_password # ""
  /\ call.outcome = "sent"
  /\ call.returned = "False"

\* the step is a notify call
IsNotifyStep == calls' # calls /\ calls' # <<>>

\* C20: in every poll cycle last_check is set exactly once, after detection
\* and merge have been done for all configured accounts and before any notify
\* call of the cycle; it is set also when every fetch failed and when nothing
\* new was found, and it is never set per account: the turn of an account
\* leaves the in-memory last_check alone, and the one in the file too unless
\* the write of an earlier last_check had failed.
C20_LastCheckOncePerCycle ==
  [][/\ IsProcessStep =>
          /\ touches = 0
          /\ touches' = 0
          /\ state'.last_check = state.last_check
          /\ (lastSave = "ok" /\ file'.kind = "json") =>
               file'.doc.last_check = file.doc.last_check
     /\ IsTouchStep =>
          /\ touches = 0
          /\ Processed = UserSet
          /\ calls = <<>>
          /\ state'.last_check = clock'
     /\ state'.last_check # state.last_check => IsTouchStep
     /\ touches' > touches => IsTouchStep
     /\ IsNotifyStep => touches = 1 /\ touches' = 1
     /\ pc = "process" /\ pc' # "process" => pc' = "touch"
     /\ results'.cycle => touches' = 1]_vars

\* a cycle in which every fetch failed, so that nothing was new, has
\* completed and has set last_check to the time it ran at
C20_Witness ==
  /\ results.cycle
  /\ failed = UserSet
  /\ results.new_repositories = 0
  /\ touches = 1
  /\ state.last_check = MaxClock
  /\ file.doc.last_check = MaxClock

\* the positions of the list at which the id occurs
Occurrences(repos, i) == {n \in 1..Len(repos) : repos[n].id = i}

\* the last record of the list with the id
LastWith(repos, i) ==
  repos[CHOOSE n \in Occurrences(repos, i) : \A m \in Occurrences(repos, i) : m <= n]

\* every occurrence of an unknown id is returned as new, and the merge keeps
\* the record of the last occurrence of each id of the list
PassThroughAndMerge ==
  call.op = "process" =>
    /\ \A i \in Ids :
         Cardinality(Occurrences(call.result, i)) =
           IF i \in call.known THEN 0 ELSE Cardinality(Occurrences(call.repos, i))
    /\ NewFor(call.user) = call.result
    /\ \A i \in Ids :
         Occurrences(call.repos, i) # {} =>
           /\ i \in StoredIds(state, call.user)
           /\ state.repositories[call.user][Str(i)] = LastWith(call.repos, i)

\* C21 (as stated): detect_new_repositories does not deduplicate: every
\* occurrence of an unknown id in the current list is returned as new, counted
\* in new_repositories and notified in that cycle, while after the merge the
\* state of the account holds the id once, with the record of its last
\* occurrence.
C21_DuplicatesAllNotified ==
  /\ PassThroughAndMerge
  /\ results.cycle =>
       /\ results.new_repositories = SumOfNew(Len(Users))
       /\ calls = NewRecords

\* C21 (amended): every occurrence of an unknown id in the current list is
\* returned as new and counted in new_repositories; each occurrence gets its
\* own notify call when the notifier is properly configured, and none is
\* notified when it is not; after the merge the state of the account holds
\* the id once, with the record of its last occurrence.
C21_DuplicatesPassThrough ==
  /\ PassThroughAndMerge
  /\ results.cycle =>
       /\ results.new_repositories = SumOfNew(Len(Users))
       /\ calls = IF IsProperlyConfigured(email) THEN NewRecords ELSE <<>>
       /\ results.notifications_sent + results.notifications_failed = Len(calls)

\* a cycle fetched for one account a list with the same unknown id twice, with
\* two contents: both records were reported as new and notified, and the state
\* holds the second
C21_Witness ==
  /\ results.cycle
  /\ IsProperlyConfigured(email)
  /\ Len(NewFor("alice")) = 2
  /\ NewFor("alice")[1].id = NewFor("alice")[2].id
  /\ NewFor("alice")[1].ver = "v1"
  /\ NewFor("alice")[2].ver = "v2"
  /\ Cardinality(Occurrences(calls, NewFor("alice")[1].id)) = 2
  /\ results.new_repositories = 2
  /\ DOMAIN state.repositories["alice"] = {Str(NewFor("alice")[1].id)}
  /\ state.repositories["alice"][Str(NewFor("alice")[1].id)].ver = "v2"

\* the step is a call of get_known_repositories or detect_new_repositories
IsReadStep == call'.op \in {"known", "detect"}

\* C22: detect_new_repositories and get_known_repositories are pure reads:
\* for every account, one never seen included, they leave the in-memory state
\* and the file as they were (no entry is created, nothing is written), and
\* get_known_repositories returns the empty set for an unseen account.
C22_ReadsArePure ==
  [][IsReadStep =>
       /\ state' = state
       /\ file' = file
       /\ faults' = faults
       /\ lastSave' = lastSave
       /\ call'.user \notin DOMAIN state.repositories =>
            /\ call'.known = {}
            /\ call'.user \notin DOMAIN state'.repositories
            /\ call'.op = "detect" => call'.result = call'.repos]_vars

\* detect_new_repositories was called for an account never seen, with a list
\* of two records, while another account has a record in memory and the file
\* is behind the memory
C22_Witness ==
  /\ call.op = "detect"
  /\ Len(call.result) = 2
  /\ DOMAIN state.repositories = {"bob"}
  /\ StoredIds(state, "bob") # {}
  /\ file.doc # state

\* the ids of the records of a list, as a set
IdSetOf(repos) == {repos[n].id : n \in 1..Len(repos)}

\* the keys of the entry of an account are the digit strings of its ids
KeysAreIds(st, u) ==
  u \in DOMAIN st.repositories =>
    DOMAIN st.repositories[u] = {Str(i) : i \in StoredIds(st, u)}

\* C23: update_repositories(account, R) changes only the entry of that
\* account: afterwards its known ids are the previous ones united with the ids
\* of R, every id of R maps to its record from R, every stored id not in R
\* keeps its record, and the entries of the other accounts and last_check are
\* as before; the same id under two accounts is tracked independently, so that
\* what is new for another account is not changed by the merge.
C23_UpdateTouchesOneAccount ==
  [][call'.op = "update" =>
       LET u == call'.user
           R == call'.repos
       IN /\ u \in DOMAIN state'.repositories
          /\ KeysAreIds(state', u)
          /\ StoredIds(state', u) = StoredIds(state, u) \cup IdSetOf(R)
          /\ GetKnownRepositories(state', u) =
               GetKnownRepositories(state, u) \cup IdSetOf(R)
          /\ \A i \in IdSetOf(R) :
               state'.repositories[u][Str(i)] = LastWith(R, i)
          /\ \A i \in StoredIds(state, u) \ IdSetOf(R) :
               state'.repositories[u][Str(i)] = state.repositories[u][Str(i)]
          /\ \A v \in UserSet \ {u} :
               /\ EntryOf(state', v) = EntryOf(state, v)
               /\ \A C \in RepoLists(v, contents) :
                    DetectNewRepositories(state', v, C) =
                      DetectNewRepositories(state, v, C)
          /\ state'.last_check = state.last_check
          /\ DOMAIN state' = DOMAIN state
          /\ file'.doc = state']_vars

\* update_repositories was called for the first account with a record of id 9
\* alone: the record replaced the stored one, the stored record of id 10 and
\* the record the second account has under the id 9 are as they were loaded
C23_Witness ==
  /\ call.op = "update"
  /\ call.user = Users[1]
  /\ IdsOf(call.repos) = <<9>>
  /\ StoredIds(state, Users[1]) = {9, 10}
  /\ state.repositories[Users[1]][Str(9)] = Repo(Users[1], 9, "v1")
  /\ state.repositories[Users[1]][Str(10)] = Repo(Users[1], 10, "v2")
  /\ StoredIds(state, Users[2]) = {9}
  /\ state.repositories[Users[2]][Str(9)] = Repo(Users[2], 9, "v2")
  /\ state.last_check = 1

\* the step is the start of main
IsMainStep == pc = "off" /\ pc' # "off"

\* the arguments of a command line that are not the flag, in order
RECURSIVE Positionals(_)
Positionals(args) ==
  IF args = <<>> THEN <<>>
  ELSE IF Head(args) = "--once" THEN Positionals(Tail(args))
       ELSE <<Head(args)>> \o Positionals(Tail(args))

\* C24 (as stated): the config path and the single-cycle flag are independent:
\* the path is the positional argument, or config.json when none is given,
\* also when the flag is given alone; with the flag exactly one cycle runs,
\* without it the continuous mode runs.
C24_PathAndFlagIndependent ==
  [][/\ IsMainStep =>
          LET args == Tail(call'.argv) IN
          /\ call'.config_path =
               IF Positionals(args) = <<>> THEN "config.json"
               ELSE Head(Positionals(args))
          /\ email' = LoadEmailSection(call'.config_path)
          /\ sched' = IF InArgv("--once", args) THEN "once" ELSE "begin"
     /\ (pc = "idle" /\ pc' = "process") => sched \in {"once", "begin", "woke"}
     /\ sched \in {"once_cycle", "stopped"} => sched' \in {"once_cycle", "stopped"}]_vars

\* the step holds a write of the state file that fails
IsFailedWrite == faults' = faults + 1

\* C25: a failed write of the state file is absorbed: when the write fails
\* inside update_repositories or update_last_check_time the call does not
\* raise, the in-memory state keeps the update, the cycle goes on to its next
\* step, and this cycle and the later ones detect against the in-memory state,
\* so that within the running process no record is reported as new again.
C25_FailedWriteAbsorbed ==
  [][/\ pc' # "fatal"
     /\ IsFailedWrite =>
          /\ lastSave' = "failed"
          /\ IsProcessStep \/ IsTouchStep
          /\ IsProcessStep =>
               /\ StoredIds(state', call'.user) =
                    StoredIds(state, call'.user) \cup IdSetOf(call'.repos)
               /\ \A i \in IdSetOf(call'.repos) :
                    state'.repositories[call'.user][Str(i)] = LastWith(call'.repos, i)
               /\ DetectNewRepositories(state', call'.user, call'.repos) = <<>>
               /\ pc' = IF idx = Len(Users) THEN "touch" ELSE "process"
          /\ IsTouchStep =>
               /\ state'.last_check = clock'
               /\ pc' = "send"
     /\ IsProcessStep =>
          /\ call'.known = StoredIds(state, call'.user)
          /\ IsOrderedSelection(call'.result, call'.repos, StoredIds(state, call'.user))
     /\ \A p \in Pairs : newCount'[p] <= 1]_vars

\* in a later cycle the fetch of an account returned a record that the process
\* had merged before; writes had failed in the run, the write of this merge
\* failed too, the file does not hold the record, and the record was not
\* reported as new again
C25_Witness ==
  /\ call.op = "process"
  /\ call.repos # <<>>
  /\ call.result = <<>>
  /\ state.last_check > 0
  /\ lastSave = "failed"
  /\ faults = MaxWriteFaults
  /\ file.kind = "garbage"
  /\ \A n \in 1..Len(call.repos) : newCount[<<call.user, call.repos[n].id>>] = 1
====
